---------------------------- MODULE Spec2Model ----------------------------
(***************************************************************************)
(* Verification model of the virgil-sdk-javascript token core:             *)
(*   - Jwt (parse / serialize / expiry)            src/unnamed/part_001    *)
(*   - CachingJwtProvider (single-flight renewal)                          *)
(*       src/src/Auth/AccessTokenProviders/CachingJwtProvider.ts           *)
(*                                                                         *)
(* Text is modelled as a sequence of one-character strings, a Buffer as a  *)
(* sequence of byte values 0..255, JSON text by its UTF-8 bytes.           *)
(***************************************************************************)
EXTENDS Integers, Sequences, FiniteSets, TLC

(***************************************************************************)
(* Bounds of the model.                                                    *)
(***************************************************************************)
\* largest number of '.'-separated parts of a wire string fed to fromString
MaxParts == 4
\* largest kid digit used in a header
MaxKid == 1
\* the clock stops advancing at this many milliseconds
MaxNow == 1500
\* number of getToken calls issued on one provider
MaxCalls == 3
\* number of renewal callback invocations on one provider
MaxRenewals == 2

(***************************************************************************)
(* Values shared by both components.                                       *)
(***************************************************************************)
\* JavaScript's undefined
Undefined == [type |-> "undefined"]

\* a JavaScript string value
StrV(s) == [type |-> "string", str |-> s]

\* an Error object with the given message
ErrV(m) == [type |-> "Error", message |-> m]

\* a Buffer holding the bytes b; NoBuffer is an absent (undefined) signature
Buf(b) == [present |-> TRUE, bytes |-> b]

NoBuffer == [present |-> FALSE, bytes |-> <<>>]

(***************************************************************************)
(* Lib/base64: base64url over byte sequences.                              *)
(***************************************************************************)
B64Alphabet ==
  << "A","B","C","D","E","F","G","H","I","J","K","L","M","N","O","P",
     "Q","R","S","T","U","V","W","X","Y","Z","a","b","c","d","e","f",
     "g","h","i","j","k","l","m","n","o","p","q","r","s","t","u","v",
     "w","x","y","z","0","1","2","3","4","5","6","7","8","9","+","/" >>

\* the character of a 6-bit value
B64Char(v) == B64Alphabet[v + 1]

\* the 6-bit value of a base64 character
B64Value(c) == (CHOOSE i \in 1..64 : B64Alphabet[i] = c) - 1

IsB64Char(c) == \E i \in 1..64 : B64Alphabet[i] = c

\* standard base64 with '=' padding
RECURSIVE base64Encode(_)
base64Encode(bytes) ==
  IF Len(bytes) = 0 THEN <<>>
  ELSE IF Len(bytes) = 1 THEN
    << B64Char(bytes[1] \div 4), B64Char((bytes[1] % 4) * 16), "=", "=" >>
  ELSE IF Len(bytes) = 2 THEN
    << B64Char(bytes[1] \div 4),
       B64Char((bytes[1] % 4) * 16 + bytes[2] \div 16),
       B64Char((bytes[2] % 16) * 4), "=" >>
  ELSE
    << B64Char(bytes[1] \div 4),
       B64Char((bytes[1] % 4) * 16 + bytes[2] \div 16),
       B64Char((bytes[2] % 16) * 4 + bytes[3] \div 64),
       B64Char(bytes[3] % 64) >>
    \o base64Encode(SubSeq(bytes, 4, Len(bytes)))

\* standard base64 decoding of unpadded text whose length is not 1 mod 4
RECURSIVE base64Decode(_)
base64Decode(chars) ==
  IF Len(chars) = 0 THEN <<>>
  ELSE IF Len(chars) = 2 THEN
    << B64Value(chars[1]) * 4 + B64Value(chars[2]) \div 16 >>
  ELSE IF Len(chars) = 3 THEN
    << B64Value(chars[1]) * 4 + B64Value(chars[2]) \div 16,
       (B64Value(chars[2]) % 16) * 16 + B64Value(chars[3]) \div 4 >>
  ELSE
    << B64Value(chars[1]) * 4 + B64Value(chars[2]) \div 16,
       (B64Value(chars[2]) % 16) * 16 + B64Value(chars[3]) \div 4,
       (B64Value(chars[3]) % 4) * 64 + B64Value(chars[4]) >>
    \o base64Decode(SubSeq(chars, 5, Len(chars)))

\* '+' -> '-', '/' -> '_', '=' dropped
RECURSIVE ToUrlAlphabet(_)
ToUrlAlphabet(chars) ==
  IF Len(chars) = 0 THEN <<>>
  ELSE LET c == Head(chars)
           rest == ToUrlAlphabet(Tail(chars))
       IN IF c = "=" THEN rest
          ELSE IF c = "+" THEN <<"-">> \o rest
          ELSE IF c = "/" THEN <<"_">> \o rest
          ELSE <<c>> \o rest

\* '-' -> '+', '_' -> '/'
FromUrlAlphabet(chars) ==
  [i \in 1..Len(chars) |->
     IF chars[i] = "-" THEN "+" ELSE IF chars[i] = "_" THEN "/" ELSE chars[i]]

base64UrlEncode(bytes) == ToUrlAlphabet(base64Encode(bytes))

\* [ok |-> TRUE, bytes] or, for malformed base64, [ok |-> FALSE] (it throws)
base64UrlDecode(chars) ==
  LET std == FromUrlAlphabet(chars)
  IN IF Len(std) % 4 = 1 \/ \E i \in 1..Len(std) : ~IsB64Char(std[i])
     THEN [ok |-> FALSE, bytes |-> <<>>]
     ELSE [ok |-> TRUE, bytes |-> base64Decode(std)]

(***************************************************************************)
(* JSON text (as UTF-8 bytes) of the header and body objects.              *)
(* A header is modelled by its kid, a body by its exp.                     *)
(***************************************************************************)
Header(k) == [kid |-> k]

Body(e) == [exp |-> e]

\* decimal digits of a natural number, as ASCII bytes
RECURSIVE Digits(_)
Digits(n) == IF n < 10 THEN <<48 + n>> ELSE Digits(n \div 10) \o <<48 + (n % 10)>>

\* JSON.stringify, then UTF-8:  {"kid":"<k>"}  or  {"exp":<e>}
JSONstringify(v) ==
  IF "kid" \in DOMAIN v
  THEN <<123, 34, 107, 105, 100, 34, 58, 34>> \o Digits(v.kid) \o <<34, 125>>
  ELSE <<123, 34, 101, 120, 112, 34, 58>> \o Digits(v.exp) \o <<125>>


\* the exp values (Unix seconds) of the tokens of the model
ExpValues == {0, 5, 20}

\* the objects whose JSON text the model knows
JsonValues == {Header(k) : k \in 0..MaxKid} \cup {Body(e) : e \in ExpValues}

\* whether JSON.parse accepts the text (it throws SyntaxError otherwise)
JSONvalid(text) == \E v \in JsonValues : JSONstringify(v) = text

JSONparse(text) == CHOOSE v \in JsonValues : JSONstringify(v) = text

(***************************************************************************)
(* class Jwt                                                               *)
(***************************************************************************)
headerBase64(header) == base64UrlEncode(JSONstringify(header))

bodyBase64(body) == base64UrlEncode(JSONstringify(body))

\* the signature in standard base64: '+', '/' and the '=' padding kept
signatureBase64Std(signature) == base64Encode(signature.bytes)

signatureBase64(signature) == base64UrlEncode(signature.bytes)

\* constructor, lines 146-150: the canonical string
StringRepresentation(withoutSignature, signature) ==
  IF ~signature.present
  THEN withoutSignature
  ELSE withoutSignature \o <<".">> \o signatureBase64(signature)

\* new Jwt(header, body, signature?)
Jwt(header, body, signature) ==
  LET withoutSignature == headerBase64(header) \o <<".">> \o bodyBase64(body)
  IN [type |-> "Jwt",
      header |-> header,
      body |-> body,
      signature |-> signature,
      unsignedData |-> withoutSignature,
      stringRepresentation |-> StringRepresentation(withoutSignature, signature)]

\* toString(), line 157-159; self is the Jwt it is called on
toString(self) == self.stringRepresentation

\* String.prototype.split('.')
RECURSIVE SplitFrom(_, _, _)
SplitFrom(s, cur, acc) ==
  IF Len(s) = 0 THEN Append(acc, cur)
  ELSE IF Head(s) = "." THEN SplitFrom(Tail(s), <<>>, Append(acc, cur))
  ELSE SplitFrom(Tail(s), Append(cur, Head(s)), acc)

Split(s) == SplitFrom(s, <<>>, <<>>)

\* the outcome of a call: a returned value, or a thrown one
Return(v) == [ok |-> TRUE, value |-> v]

Throw(e) == [ok |-> FALSE, value |-> e]

WrongJwtFormat == ErrV("Wrong JWT format")

\* the length test of fromString, line 105
WrongPartCountLax(parts) == Len(parts) < 3

WrongPartCount(parts) == Len(parts) # 3

\* Jwt.fromString
fromString(str) ==
  LET parts == Split(str)
  IN IF WrongPartCount(parts) THEN Throw(WrongJwtFormat)
     ELSE LET h == base64UrlDecode(parts[1])
              b == base64UrlDecode(parts[2])
              s == base64UrlDecode(parts[3])
          IN IF h.ok /\ b.ok /\ s.ok /\ JSONvalid(h.bytes) /\ JSONvalid(b.bytes)
             THEN Return(Jwt(JSONparse(h.bytes), JSONparse(b.bytes), Buf(s.bytes)))
             ELSE Throw(WrongJwtFormat)

(***************************************************************************)
(* Lib/timestamp: a Date is its number of milliseconds.                    *)
(***************************************************************************)
MsPerSecond == 1000

getUnixTimestamp(date) == date \div MsPerSecond

addSeconds(date, seconds) == date + seconds * MsPerSecond

\* whether the body carries an exp (a parsed body is whatever JSON it held)
HasExp(self) == "exp" \in DOMAIN self.body

\* a non-strict comparison of exp with the date
isExpiredNonStrict(self, at) ==
  HasExp(self) /\ self.body.exp <= getUnixTimestamp(at)

\* Jwt.isExpired; an absent exp is undefined, and undefined < now is false
isExpired(self, at) ==
  HasExp(self) /\ self.body.exp < getUnixTimestamp(at)

(***************************************************************************)
(* State.                                                                  *)
(*   Jwt in isolation:                                                     *)
(*     jwt       the Jwt object at hand, or Undefined                      *)
(*     jwtStr    the wire string at hand (StrV), or Undefined              *)
(*     strOf     the Jwt whose toString() gave jwtStr, or Undefined when   *)
(*               jwtStr came from outside                                  *)
(*     parsed    the outcome of Jwt.fromString(jwtStr), or Undefined       *)
(*     expiry    the last isExpired call: [at, expired], or Undefined      *)
(***************************************************************************)
VARIABLES jwt, jwtStr, strOf, parsed, expiry

jwtVars == <<jwt, jwtStr, strOf, parsed, expiry>>

\* signature buffers: empty, one byte, bytes whose base64 uses '+' and '/',
\* a whole 3-byte group
Signatures == {Buf(<<>>), Buf(<<1>>), Buf(<<251, 255>>), Buf(<<1, 2, 3>>)}

\* the parts wire strings are assembled from: an empty part, a header, a
\* body, a signature, and base64 text ("QQ") that decodes to no JSON
PartChoices ==
  { <<>>, headerBase64(Header(0)), bodyBase64(Body(5)),
    signatureBase64(Buf(<<251, 255>>)), <<"Q", "Q">> }

RECURSIVE Join(_)
Join(parts) ==
  IF Len(parts) = 1 THEN parts[1]
  ELSE parts[1] \o <<".">> \o Join(Tail(parts))

WireInputs ==
  { Join(parts) : parts \in UNION { [1..n -> PartChoices] : n \in 1..MaxParts } }

\* the dates isExpired is asked about: around each exp, to the millisecond
AtValues ==
  { t \in { e * MsPerSecond + d : e \in ExpValues, d \in {-1, 0, 999, 1000} } :
      t >= 0 }

InitJwt ==
  /\ jwt = Undefined
  /\ jwtStr = Undefined
  /\ strOf = Undefined
  /\ parsed = Undefined
  /\ expiry = Undefined

\* a token is built in memory from a header, a body and an optional signature
NewJwt ==
  /\ jwt = Undefined /\ jwtStr = Undefined
  /\ \E k \in 0..MaxKid, e \in ExpValues, s \in Signatures \cup {NoBuffer} :
       jwt' = Jwt(Header(k), Body(e), s)
  /\ UNCHANGED <<jwtStr, strOf, parsed, expiry>>

\* a wire string arrives from outside
FeedString ==
  /\ jwt = Undefined /\ jwtStr = Undefined
  /\ \E w \in WireInputs : jwtStr' = StrV(w)
  /\ UNCHANGED <<jwt, strOf, parsed, expiry>>

\* jwt.toString()
CallToString ==
  /\ jwt # Undefined
  /\ jwtStr' = StrV(toString(jwt))
  /\ strOf' = jwt
  /\ parsed' = Undefined
  /\ UNCHANGED <<jwt, expiry>>

\* Jwt.fromString(jwtStr)
CallFromString ==
  /\ jwtStr # Undefined
  /\ parsed = Undefined
  /\ parsed' = fromString(jwtStr.str)
  /\ UNCHANGED <<jwt, jwtStr, strOf, expiry>>

\* the parsed token becomes the token at hand
AdoptParsed ==
  /\ parsed # Undefined
  /\ parsed.ok
  /\ jwt' = parsed.value
  /\ jwtStr' = Undefined
  /\ strOf' = Undefined
  /\ parsed' = Undefined
  /\ expiry' = Undefined

\* jwt.isExpired(at)
CallIsExpired ==
  /\ jwt # Undefined
  /\ \E t \in AtValues : expiry' = [at |-> t, expired |-> isExpired(jwt, t)]
  /\ UNCHANGED <<jwt, jwtStr, strOf, parsed>>

(***************************************************************************)
(* Properties of Jwt, checked under SpecJwt (defined at the end).          *)
(***************************************************************************)
\* a round trip has been made: jwtStr is strOf.toString() and parsed is
\* Jwt.fromString(jwtStr)
RoundTripMade == strOf # Undefined /\ jwtStr # Undefined /\ parsed # Undefined

SameToken(a, b) ==
  /\ a.header = b.header
  /\ a.body = b.body
  /\ a.signature = b.signature

\* C8 as stated: for every Token, signed or not, parsed or built in memory,
\* Jwt.fromString(token.toString()) yields a Token with identical header,
\* body and signature bytes.
C8_RoundTripEveryToken ==
  RoundTripMade => parsed.ok /\ SameToken(parsed.value, strOf)

\* C8 amended: the round trip yields identical header, body and signature
\* bytes for every Token that has a signature (every parsed Token has one);
\* the string of a Token built without a signature has two parts and
\* Jwt.fromString rejects it with 'Wrong JWT format'.
C8_RoundTripSigned ==
  RoundTripMade =>
    IF strOf.signature.present
    THEN parsed.ok /\ SameToken(parsed.value, strOf)
    ELSE ~parsed.ok /\ parsed.value = WrongJwtFormat

\* a signed token whose signature uses both url-safe characters made the trip
C8_Witness ==
  /\ RoundTripMade
  /\ strOf.signature = Buf(<<251, 255>>)
  /\ parsed.ok
  /\ parsed.value.signature = Buf(<<251, 255>>)

\* the number of '.' in a text, and where its parts are empty
DotCount(str) == Cardinality({i \in 1..Len(str) : str[i] = "."})

FirstPartEmpty(str) == Len(str) = 0 \/ str[1] = "."

LastPartEmpty(str) == Len(str) = 0 \/ str[Len(str)] = "."

SomeInnerPartEmpty(str) ==
  \E i \in 1..(Len(str) - 1) : str[i] = "." /\ str[i + 1] = "."

\* C9 as stated: Jwt.fromString fails for every wire string that does not
\* split on '.' into exactly 3 non-empty parts (any one part empty, the
\* signature part included), and never returns a Token for it.
C9_FailsUnlessThreeNonEmptyParts ==
  (jwtStr # Undefined /\ parsed # Undefined) =>
    ((\/ DotCount(jwtStr.str) # 2
      \/ FirstPartEmpty(jwtStr.str)
      \/ SomeInnerPartEmpty(jwtStr.str)
      \/ LastPartEmpty(jwtStr.str))
     => ~parsed.ok /\ parsed.value = WrongJwtFormat)

\* C9 amended: Jwt.fromString fails with 'Wrong JWT format' for every wire
\* string that does not split on '.' into exactly 3 parts, and for every
\* 3-part string whose header or body part is empty; an empty signature part
\* is accepted, and the Token returned then has an empty signature.
C9_FailsUnlessThreeParts ==
  (jwtStr # Undefined /\ parsed # Undefined) =>
    /\ (\/ DotCount(jwtStr.str) # 2
        \/ FirstPartEmpty(jwtStr.str)
        \/ SomeInnerPartEmpty(jwtStr.str))
       => ~parsed.ok /\ parsed.value = WrongJwtFormat
    /\ (DotCount(jwtStr.str) = 2 /\ LastPartEmpty(jwtStr.str) /\ parsed.ok)
       => parsed.value.signature = Buf(<<>>)

\* a string of 4 parts, each of them non-empty, has been rejected
C9_Witness ==
  /\ jwtStr # Undefined
  /\ parsed # Undefined
  /\ DotCount(jwtStr.str) = 3
  /\ ~FirstPartEmpty(jwtStr.str)
  /\ ~SomeInnerPartEmpty(jwtStr.str)
  /\ ~LastPartEmpty(jwtStr.str)
  /\ ~parsed.ok

\* C10: isExpired(at) is true iff body.exp < unixSeconds(at); a token with
\* exp == now is not expired at exactly now (nor later within that second)
\* and is expired at now + 1 second.
C10_IsExpiredStrict ==
  (expiry # Undefined /\ jwt # Undefined /\ HasExp(jwt)) =>
    /\ expiry.expired = (jwt.body.exp < getUnixTimestamp(expiry.at))
    /\ expiry.at = jwt.body.exp * 1000 => ~expiry.expired
    /\ expiry.at = jwt.body.exp * 1000 + 999 => ~expiry.expired
    /\ expiry.at = jwt.body.exp * 1000 + 1000 => expiry.expired

\* isExpired was asked at exactly exp and answered "not expired"
C10_Witness ==
  /\ expiry # Undefined
  /\ jwt # Undefined
  /\ HasExp(jwt)
  /\ expiry.at = jwt.body.exp * 1000
  /\ ~expiry.expired

(***************************************************************************)
(* class CachingJwtProvider                                                *)
(*                                                                         *)
(*   now         the wall clock, in milliseconds (new Date())              *)
(*   cachedJwt   this.cachedJwt: a Jwt or Undefined                        *)
(*   jwtPromise  this.jwtPromise: 0 for undefined, else the number of the  *)
(*               renewal whose promise chain it is                         *)
(*   renewals    one record per invocation of renewJwtFn, in order:        *)
(*                 context      the context it was invoked with            *)
(*                 startedBy    history: the number of the getToken call   *)
(*                              that invoked it                            *)
(*                 callback     "outstanding", "resolved", "rejected" or   *)
(*                              "threw" (synchronously)                    *)
(*                 produced     what the callback resolved, rejected or    *)
(*                              threw with (Undefined while outstanding)   *)
(*                 promise      state of the chained promise handed to the *)
(*                              callers: "pending", "fulfilled",           *)
(*                              "rejected", or "none" when the callback    *)
(*                              threw and no promise was made              *)
(*                 result       the value the chained promise settled with *)
(*                 callsAtSettle, cachedAfter, markerAfter                 *)
(*                              history: number of getToken calls made,    *)
(*                              cachedJwt and jwtPromise when it completed *)
(*   calls       one record per getToken call, in order:                   *)
(*                 context, at  its argument and the time of the call      *)
(*                 cachedBefore, markerBefore, outstandingBefore           *)
(*                              history: cachedJwt, jwtPromise and the     *)
(*                              outstanding callbacks when it was made     *)
(*                 invoked      the renewal it started, or 0               *)
(*                 result       what it returned: [kind |-> "resolved"]    *)
(*                              with a value, [kind |-> "promise"] with    *)
(*                              the renewal's number, or, when the         *)
(*                              callback threw, [kind |-> "thrown"]        *)
(*                                                                         *)
(* The reactions getJwt chains on the callback's promise (.then, .catch)   *)
(* run back to back when that promise settles, before any other task; a    *)
(* renewal completion is one step.  The callback itself does not call the  *)
(* provider.                                                               *)
(***************************************************************************)
VARIABLES now, cachedJwt, jwtPromise, renewals, calls

providerVars == <<now, cachedJwt, jwtPromise, renewals, calls>>

TOKEN_EXPIRATION_MARGIN == 5

\* the clock advances in steps of this many milliseconds
TickMs == 500

Contexts == {"ctxA", "ctxB"}

\* the tokens the renewal callback and the constructor's caller hold
RenewTokens == { Jwt(Header(0), Body(e), Buf(<<1>>)) : e \in ExpValues }

\* a string that is no token: the two parts of an unsigned token
BadStrings == { toString(Jwt(Header(0), Body(20), NoBuffer)) }

\* the token whose string form the callback and the constructor's caller use
StringToken == Jwt(Header(0), Body(5), Buf(<<1>>))

\* what the callback may resolve with: a Jwt, a token string, a string that
\* is no token
ResolveValues ==
  RenewTokens \cup { StrV(toString(StringToken)) }
              \cup { StrV(b) : b \in BadStrings }

\* what the callback may reject or throw with: an Error, a token string, a
\* string that is no token
RejectValues ==
  { ErrV("renewal failed"), StrV(toString(StringToken)) }
    \cup { StrV(b) : b \in BadStrings }

\* Jwt.fromString on the strings the callback produces, tabulated
CallbackStrings == { toString(StringToken) } \cup BadStrings

FromStringTable == { [str |-> str, out |-> fromString(str)] : str \in CallbackStrings }

JwtFromString(str) == (CHOOSE e \in FromStringTable : e.str = str).out

\* constructor, lines 33-46: the initial value of cachedJwt
InitialCache(initialToken) ==
  IF initialToken = Undefined THEN Undefined
  ELSE IF initialToken.type = "string" THEN fromString(initialToken.str).value
  ELSE initialToken

InitialTokens ==
  {Undefined} \cup RenewTokens \cup { StrV(toString(StringToken)) }

InitialCaches == { InitialCache(initialToken) : initialToken \in InitialTokens }

\* lines 49-54 without the margin
CacheFreshNoMargin(cached, date) ==
  cached # Undefined /\ ~isExpired(cached, date)

\* lines 49-54 with a non-strict expiry test
CacheFreshNonStrict(cached, date) ==
  /\ cached # Undefined
  /\ ~isExpiredNonStrict(cached, addSeconds(date, TOKEN_EXPIRATION_MARGIN))

\* lines 49-54: the cached token is there and still fresh at date + margin
CacheFresh(cached, date) ==
  /\ cached # Undefined
  /\ ~isExpired(cached, addSeconds(date, TOKEN_EXPIRATION_MARGIN))

\* line 58 skipped: never join
InFlightIgnored(promise) == FALSE

\* line 58: a renewal is in flight
InFlight(promise) == promise # 0

\* the state the handlers read and write
ProviderState(cached, promise) == [cachedJwt |-> cached, jwtPromise |-> promise]

\* lines 63-71 without line 69
ThenHandlerKeepsMarker(st, token) ==
  IF token.type = "string"
  THEN LET r == JwtFromString(token.str)
       IN IF r.ok
          THEN [st |-> ProviderState(r.value, st.jwtPromise), out |-> Return(r.value)]
          ELSE [st |-> st, out |-> Throw(r.value)]
  ELSE [st |-> ProviderState(token, st.jwtPromise), out |-> Return(token)]

\* lines 63-71 returning the token cached before instead of the new one
ThenHandlerReturnsOld(st, token) ==
  IF token.type = "string"
  THEN LET r == JwtFromString(token.str)
       IN IF r.ok
          THEN [st |-> ProviderState(r.value, 0), out |-> Return(st.cachedJwt)]
          ELSE [st |-> st, out |-> Throw(r.value)]
  ELSE [st |-> ProviderState(token, 0), out |-> Return(st.cachedJwt)]

\* lines 63-71, the reaction to the callback's value: a string is parsed
\* (fromString may throw, and nothing is assigned then), the Jwt is cached
\* and the marker cleared
ThenHandler(st, token) ==
  IF token.type = "string"
  THEN LET r == JwtFromString(token.str)
       IN IF r.ok
          THEN [st |-> ProviderState(r.value, 0), out |-> Return(r.value)]
          ELSE [st |-> st, out |-> Throw(r.value)]
  ELSE [st |-> ProviderState(token, 0), out |-> Return(token)]

\* lines 72-85 without the string fallback of lines 73-82
CatchHandlerNoFallback(st, err) ==
  [st |-> ProviderState(st.cachedJwt, 0), out |-> Throw(err)]

\* lines 72-85 without line 83
CatchHandlerKeepsMarker(st, err) ==
  IF err.type = "string" /\ JwtFromString(err.str).ok
  THEN LET r == JwtFromString(err.str)
       IN [st |-> ProviderState(r.value, 0), out |-> Return(r.value)]
  ELSE [st |-> st, out |-> Throw(err)]

\* lines 72-85 forgetting the cached token when the renewal has failed
CatchHandlerClearsCache(st, err) ==
  IF err.type = "string" /\ JwtFromString(err.str).ok
  THEN LET r == JwtFromString(err.str)
       IN [st |-> ProviderState(r.value, 0), out |-> Return(r.value)]
  ELSE [st |-> ProviderState(Undefined, 0), out |-> Throw(err)]

\* lines 72-85, the reaction to a rejection (of the callback, or thrown by
\* the reaction above): a string that parses is a token after all; anything
\* else clears the marker and is thrown again
CatchHandler(st, err) ==
  IF err.type = "string" /\ JwtFromString(err.str).ok
  THEN LET r == JwtFromString(err.str)
       IN [st |-> ProviderState(r.value, 0), out |-> Return(r.value)]
  ELSE [st |-> ProviderState(st.cachedJwt, 0), out |-> Throw(err)]

\* lines 62-85: Promise.resolve(renewJwtFn(context)).then(..).catch(..),
\* once the callback has settled with `settled`
Chain(st, settled) ==
  LET afterThen == IF settled.ok
                   THEN ThenHandler(st, settled.value)
                   ELSE [st |-> st, out |-> settled]
  IN IF afterThen.out.ok
     THEN afterThen
     ELSE CatchHandler(afterThen.st, afterThen.out.value)

Outstanding == { i \in 1..Len(renewals) : renewals[i].callback = "outstanding" }

\* new CachingJwtProvider(renewJwtFn, initialToken?)
InitProvider ==
  /\ now = 0
  /\ cachedJwt \in InitialCaches
  /\ jwtPromise = 0
  /\ renewals = <<>>
  /\ calls = <<>>

\* time passes
Tick ==
  /\ now + TickMs <= MaxNow
  /\ now' = now + TickMs
  /\ UNCHANGED <<cachedJwt, jwtPromise, renewals, calls>>

CallRecord(context, invoked, result) ==
  [context |-> context, at |-> now,
   cachedBefore |-> cachedJwt, markerBefore |-> jwtPromise,
   outstandingBefore |-> Outstanding,
   invoked |-> invoked, result |-> result]

\* line 62 passing one fixed context to the callback
CallbackContextFixed(context) == "ctxA"

\* line 62: the argument of renewJwtFn is the context of the call that
\* reached it
CallbackContext(context) == context

\* getToken(context), lines 99-101 and 48-88
GetToken(context) ==
  /\ Len(calls) < MaxCalls
  /\ IF CacheFresh(cachedJwt, now)
     THEN \* line 55
          /\ calls' = Append(calls,
               CallRecord(context, 0, [kind |-> "resolved", value |-> cachedJwt]))
          /\ UNCHANGED <<cachedJwt, jwtPromise, renewals>>
     ELSE IF InFlight(jwtPromise)
     THEN \* line 59
          /\ calls' = Append(calls,
               CallRecord(context, 0, [kind |-> "promise", value |-> jwtPromise]))
          /\ UNCHANGED <<cachedJwt, jwtPromise, renewals>>
     ELSE \* line 62: renewJwtFn(context) is called
          /\ Len(renewals) < MaxRenewals
          /\ LET id == Len(renewals) + 1
             IN \/ \* it returns (a promise, a Jwt or a string)
                   /\ renewals' = Append(renewals,
                        [context |-> CallbackContext(context),
                         startedBy |-> Len(calls) + 1,
                         callback |-> "outstanding",
                         produced |-> Undefined, promise |-> "pending",
                         result |-> Undefined, callsAtSettle |-> 0,
                         cachedAfter |-> Undefined, markerAfter |-> 0])
                   /\ jwtPromise' = id
                   /\ calls' = Append(calls,
                        CallRecord(context, id, [kind |-> "promise", value |-> id]))
                   /\ UNCHANGED cachedJwt
                \/ \* it throws: getJwt throws, this.jwtPromise is not assigned
                   \E err \in RejectValues :
                     /\ renewals' = Append(renewals,
                          [context |-> CallbackContext(context),
                           startedBy |-> Len(calls) + 1,
                           callback |-> "threw",
                           produced |-> err, promise |-> "none",
                           result |-> Undefined, callsAtSettle |-> Len(calls) + 1,
                           cachedAfter |-> cachedJwt, markerAfter |-> jwtPromise])
                     /\ calls' = Append(calls,
                          CallRecord(context, id, [kind |-> "thrown", value |-> err]))
                     /\ UNCHANGED <<cachedJwt, jwtPromise>>
  /\ UNCHANGED now

\* renewal i completes: its callback has settled and the chain has reacted
Complete(i, settled) ==
  LET after == Chain(ProviderState(cachedJwt, jwtPromise), settled)
  IN /\ cachedJwt' = after.st.cachedJwt
     /\ jwtPromise' = after.st.jwtPromise
     /\ renewals' = [renewals EXCEPT ![i] =
          [@ EXCEPT !.callback = IF settled.ok THEN "resolved" ELSE "rejected",
                    !.produced = settled.value,
                    !.promise = IF after.out.ok THEN "fulfilled" ELSE "rejected",
                    !.result = after.out.value,
                    !.callsAtSettle = Len(calls),
                    !.cachedAfter = after.st.cachedJwt,
                    !.markerAfter = after.st.jwtPromise]]
     /\ UNCHANGED <<now, calls>>

\* the callback's promise is fulfilled
RenewalResolves ==
  \E i \in Outstanding, token \in ResolveValues : Complete(i, Return(token))

\* the callback's promise is rejected
RenewalRejects ==
  \E i \in Outstanding, err \in RejectValues : Complete(i, Throw(err))

(***************************************************************************)
(* class KeyEntryStorage                           src/unnamed/part_000    *)
(*                                                                         *)
(* The bytes handed to the storage adapter are the UTF-8 JSON text of an   *)
(* object; the model keeps the object that text spells (a "document"):     *)
(* strings, base64 text, ISO date strings, nested objects, and no member   *)
(* at all where JSON.stringify drops an undefined one.                     *)
(***************************************************************************)
\* JavaScript's null
Null == [type |-> "null"]

\* a Uint8Array / Buffer holding the bytes b
Uint8Array(b) == [type |-> "Uint8Array", bytes |-> b]

\* a plain object with the given members
Obj(members) == [type |-> "object", members |-> members]

\* a Date, by its milliseconds
Date(ms) == [type |-> "Date", ms |-> ms]

\* the ISO-8601 string of a Date (millisecond precision)
IsoString(ms) == [type |-> "isoString", ms |-> ms]

\* what Buffer.prototype.toJSON gives: {type: 'Buffer', data: [...]}
BufferJSON(b) == [type |-> "BufferJSON", data |-> b]

TypeError(m) == [type |-> "TypeError", message |-> m]

KeyEntryAlreadyExistsError(name) ==
  [type |-> "KeyEntryAlreadyExistsError", name |-> name]

KeyEntryDoesNotExistError(name) ==
  [type |-> "KeyEntryDoesNotExistError", name |-> name]

\* the adapter's "already exists" signal (error.name, line 93)
StorageEntryAlreadyExistsError == [type |-> "StorageEntryAlreadyExistsError"]

\* !value is false: anything but undefined, null and the empty string
\* (an empty Uint8Array and an empty object are truthy)
Truthy(v) ==
  /\ v.type \notin {"undefined", "null"}
  /\ ~(v.type = "string" /\ v.str = <<>>)

\* requiredArg(name)(value), lines 190-192
requiredArg(argName, v) ==
  IF ~Truthy(v)
  THEN Throw(TypeError(<<"Argument '", argName, "' is required.">>))
  ELSE Return(Undefined)

\* requiredProp(name)(value), lines 193-195
requiredProp(propName, v) ==
  IF ~Truthy(v)
  THEN Throw(TypeError(<<"Invalid argument. Property ", propName, " is required">>))
  ELSE Return(Undefined)

validateName(v) == requiredArg("name", v)

validateNameProperty(v) == requiredProp("name", v)

validateValueProperty(v) == requiredProp("value", v)

\* base64 text without its '=' padding
RECURSIVE StripPadding(_)
StripPadding(chars) ==
  IF Len(chars) > 0 /\ chars[Len(chars)] = "="
  THEN StripPadding(SubSeq(chars, 1, Len(chars) - 1))
  ELSE chars

\* dataToUint8Array(value, 'base64'): a string is decoded, bytes are kept
dataToUint8Array(v) ==
  IF v.type = "string" THEN Uint8Array(base64Decode(StripPadding(v.str)))
  ELSE Uint8Array(v.bytes)

\* NodeBuffer.from(value, 'base64'): base64 text is decoded; the JSON form
\* of a Buffer gives its bytes back
NodeBufferFrom(v) ==
  IF v.type = "string" THEN Uint8Array(base64Decode(StripPadding(v.str)))
  ELSE Uint8Array(v.data)

\* JSON.stringify of a member: a Date by toISOString, a Buffer by toJSON,
\* an object member by member, a string as it is
RECURSIVE Stringify(_)
Stringify(v) ==
  IF v.type = "Date" THEN IsoString(v.ms)
  ELSE IF v.type = "Uint8Array" THEN BufferJSON(v.bytes)
  ELSE IF v.type = "object"
  THEN Obj([key \in DOMAIN v.members |-> Stringify(v.members[key])])
  ELSE v

\* the reviver of deserializeKeyEntry, lines 160-170; JSON.parse calls it
\* for every member of the tree, the innermost first
Reviver(key, v) ==
  IF key = "value" THEN NodeBufferFrom(v)
  ELSE IF key \in {"creationDate", "modificationDate"} THEN Date(v.ms)
  ELSE v

\* JSON.parse(text, reviver) of one member of a document
RECURSIVE Revive(_, _)
Revive(key, v) ==
  IF v.type = "object"
  THEN Reviver(key, Obj([inner \in DOMAIN v.members |-> Revive(inner, v.members[inner])]))
  ELSE Reviver(key, v)

\* a key entry as KeyEntryStorage builds it (lines 82-88)
KeyEntry(name, value, meta, creationDate, modificationDate) ==
  [name |-> name, value |-> value, meta |-> meta,
   creationDate |-> creationDate, modificationDate |-> modificationDate]

\* serializeKeyEntry, lines 145-153: value as base64 text, the rest by
\* JSON.stringify (an undefined meta is left out: Undefined marks its absence)
serializeKeyEntry(keyEntry) ==
  [name |-> keyEntry.name,
   meta |-> IF keyEntry.meta = Undefined THEN Undefined
            ELSE Stringify(keyEntry.meta),
   creationDate |-> Stringify(keyEntry.creationDate),
   modificationDate |-> Stringify(keyEntry.modificationDate),
   value |-> StrV(base64Encode(keyEntry.value.bytes))]

\* deserializeKeyEntry, lines 155-175, on a document serializeKeyEntry wrote
deserializeKeyEntry(data) ==
  [name |-> Revive("name", data.name),
   meta |-> IF data.meta = Undefined THEN Undefined
            ELSE Revive("meta", data.meta),
   creationDate |-> Revive("creationDate", data.creationDate),
   modificationDate |-> Revive("modificationDate", data.modificationDate),
   value |-> Revive("value", data.value)]

(***************************************************************************)
(* State of a KeyEntryStorage and of the operations running on it.         *)
(*                                                                         *)
(*   store    the storage adapter's contents: the document stored under    *)
(*            each name, or Null                                           *)
(*   writer   history: the operation that last wrote each name             *)
(*            ([op, value, meta] with the value bytes and meta it was      *)
(*            given), or Undefined                                         *)
(*   pending  the operations that have called the adapter and wait for it, *)
(*            in the order they were called                                *)
(*   last     the operation that ended last, with its outcome, or          *)
(*            Undefined                                                    *)
(*   issued   the number of operations called so far                       *)
(*                                                                         *)
(* The clock is `now`; every `new Date()` reads it.  An adapter call takes *)
(* effect in one step, at some time after it was made; the adapter fails   *)
(* only the way its contract says (store on a name that exists).          *)
(***************************************************************************)
VARIABLES store, writer, pending, last, issued

keyVars == <<store, writer, pending, last, issued>>

\* number of KeyEntryStorage operations called
MaxOps == 3
\* number of operations waiting for the adapter at the same time
MaxPending == 2
\* the clock of the key entries stops at this many milliseconds
MaxDate == 1

BoolV(b) == [type |-> "boolean", val |-> b]

\* names entries are stored under, and what callers pass as a name
Names == { StrV(<<"k">>) }

NameArgs == Names \cup { StrV(<<>>) }

\* meta objects: {note: 'x'} and {value: 'AQ=='}
MetaNote == Obj([note |-> StrV(<<"x">>)])

MetaValue == Obj([value |-> StrV(<<"A", "Q", "=", "=">>)])

EntryArgs(n, v, m) == [name |-> n, value |-> v, meta |-> m]

\* the arguments of save: no name, an empty name; no value, an empty
\* string, no bytes; the byte 2, without and with a meta
SaveArgs ==
  { EntryArgs(Undefined, Uint8Array(<<2>>), Undefined),
    EntryArgs(StrV(<<>>), Uint8Array(<<2>>), Undefined) }
  \cup { EntryArgs(n, v, Undefined) :
           n \in Names,
           v \in { Undefined, StrV(<<>>), Uint8Array(<<>>), Uint8Array(<<2>>) } }
  \cup { EntryArgs(n, Uint8Array(<<2>>), MetaNote) : n \in Names }

\* the arguments of update: an empty name; neither value nor meta; a value
\* (base64 text of the byte 1, or no bytes); a meta
UpdateArgs ==
  { EntryArgs(StrV(<<>>), Uint8Array(<<2>>), Undefined) }
  \cup { EntryArgs(n, v, Undefined) :
           n \in Names,
           v \in { Undefined, StrV(<<"A", "Q", "=", "=">>), Uint8Array(<<>>) } }
  \cup { EntryArgs(n, Undefined, MetaValue) : n \in Names }

InitKeys ==
  /\ store = [n \in Names |-> Null]
  /\ writer = [n \in Names |-> Undefined]
  /\ pending = <<>>
  /\ last = Undefined
  /\ issued = 0

\* an operation waiting for the adapter
PendingOp(op, args, pc, loaded, entry) ==
  [op |-> op, name |-> args.name, value |-> args.value, meta |-> args.meta,
   pc |-> pc, loaded |-> loaded, entry |-> entry]

\* an operation that ended: how (kind is "thrown", "fulfilled" or
\* "rejected"), after how many adapter calls, what update had loaded, and
\* the store around its last adapter call
Ended(op, args, kind, v, adapterCalls, loaded, storeBefore, storeAfter) ==
  [op |-> op, name |-> args.name, value |-> args.value, meta |-> args.meta,
   result |-> [kind |-> kind, value |-> v],
   adapterCalls |-> adapterCalls, loaded |-> loaded,
   storeBefore |-> storeBefore, storeAfter |-> storeAfter,
   writerBefore |-> writer]

NameOnly(n) == [name |-> n, value |-> Undefined, meta |-> Undefined]

ArgsOf(p) == [name |-> p.name, value |-> p.value, meta |-> p.meta]

Without(seq, i) == SubSeq(seq, 1, i - 1) \o SubSeq(seq, i + 1, Len(seq))

\* the operation throws before it has called the adapter
ThrowsAtCall(op, args, error) ==
  /\ last' = Ended(op, args, "thrown", error, 0, Undefined, store, store)
  /\ issued' = issued + 1
  /\ UNCHANGED <<store, writer, pending, now>>

\* the operation has called the adapter and waits
Waits(p) ==
  /\ Len(pending) < MaxPending
  /\ pending' = Append(pending, p)
  /\ issued' = issued + 1
  /\ UNCHANGED <<store, writer, last>>

\* the operation pending[i] ends
Ends(i, kind, v, adapterCalls, storeAfter) ==
  /\ last' = Ended(pending[i].op, ArgsOf(pending[i]), kind, v, adapterCalls,
                   pending[i].loaded, store, storeAfter)
  /\ pending' = Without(pending, i)
  /\ store' = storeAfter
  /\ UNCHANGED <<issued, now>>

\* time passes
KeyTick ==
  /\ now < MaxDate
  /\ now' = now + 1
  /\ UNCHANGED keyVars

(***************************************************************************)
(* The storage adapter (IStorageAdapter): a map from names to documents.   *)
(***************************************************************************)
adapterExists(contents, n) == contents[n] # Null

adapterLoad(contents, n) == contents[n]

\* store: create-if-absent, failing with the "already exists" signal
adapterStore(contents, n, data) ==
  IF contents[n] # Null
  THEN [out |-> Throw(StorageEntryAlreadyExistsError), contents |-> contents]
  ELSE [out |-> Return(Undefined), contents |-> [contents EXCEPT ![n] = data]]

adapterUpdate(contents, n, data) == [contents EXCEPT ![n] = data]

adapterRemove(contents, n) ==
  [out |-> Return(BoolV(contents[n] # Null)),
   contents |-> [contents EXCEPT ![n] = Null]]

(***************************************************************************)
(* The operations of KeyEntryStorage.                                      *)
(***************************************************************************)
\* exists(name), lines 46-49, up to the adapter call
CallExists(n) ==
  /\ issued < MaxOps
  /\ IF ~validateName(n).ok
     THEN ThrowsAtCall("exists", NameOnly(n), validateName(n).value)
     ELSE /\ Waits(PendingOp("exists", NameOnly(n), "exists", Undefined, Undefined))
          /\ UNCHANGED now

\* adapter.exists answers
AdapterExists(i) ==
  /\ pending[i].pc = "exists"
  /\ Ends(i, "fulfilled", BoolV(adapterExists(store, pending[i].name)), 1, store)
  /\ UNCHANGED writer

\* load(name), lines 54-56, up to the adapter call
CallLoad(n) ==
  /\ issued < MaxOps
  /\ IF ~validateName(n).ok
     THEN ThrowsAtCall("load", NameOnly(n), validateName(n).value)
     ELSE /\ Waits(PendingOp("load", NameOnly(n), "load", Undefined, Undefined))
          /\ UNCHANGED now

\* adapter.load answers and the callback of lines 56-62 runs
AdapterLoad(i) ==
  /\ pending[i].pc = "load"
  /\ LET data == adapterLoad(store, pending[i].name)
     IN IF data = Null
        THEN Ends(i, "fulfilled", Null, 1, store)
        ELSE Ends(i, "fulfilled", deserializeKeyEntry(data), 1, store)
  /\ UNCHANGED writer

\* remove(name), lines 68-71, up to the adapter call
CallRemove(n) ==
  /\ issued < MaxOps
  /\ IF ~validateName(n).ok
     THEN ThrowsAtCall("remove", NameOnly(n), validateName(n).value)
     ELSE /\ Waits(PendingOp("remove", NameOnly(n), "remove", Undefined, Undefined))
          /\ UNCHANGED now

\* adapter.remove answers
AdapterRemove(i) ==
  /\ pending[i].pc = "remove"
  /\ LET r == adapterRemove(store, pending[i].name)
     IN /\ Ends(i, "fulfilled", r.out.value, 1, r.contents)
        /\ writer' = [writer EXCEPT ![pending[i].name] = Undefined]

\* save, lines 77-78
SaveValidation(args) ==
  IF ~validateNameProperty(args.name).ok THEN validateNameProperty(args.name)
  ELSE validateValueProperty(args.value)

\* save({name, value, meta}), lines 76-90, up to the adapter call; the two
\* `new Date()` of lines 86-87 read the clock one after the other, and the
\* clock may tick in between
CallSave(args) ==
  /\ issued < MaxOps
  /\ IF ~SaveValidation(args).ok
     THEN ThrowsAtCall("save", args, SaveValidation(args).value)
     ELSE \E tick \in 0..1 :
            /\ now + tick <= MaxDate
            /\ now' = now + tick
            /\ Waits(PendingOp("save", args, "store", Undefined,
                 KeyEntry(args.name, dataToUint8Array(args.value), args.meta,
                          Date(now), Date(now + tick))))

\* lines 92-98 rethrowing whatever the adapter failed with
SaveCatchRethrows(error, n) == error

\* the catch of save, lines 92-98
SaveCatch(error, n) ==
  IF error.type = "StorageEntryAlreadyExistsError"
  THEN KeyEntryAlreadyExistsError(n)
  ELSE error

\* adapter.store answers, and the reactions of lines 91-98 run
AdapterStore(i) ==
  /\ pending[i].pc = "store"
  /\ LET p == pending[i]
         r == adapterStore(store, p.name, serializeKeyEntry(p.entry))
     IN \/ /\ r.out.ok
           /\ Ends(i, "fulfilled", p.entry, 1, r.contents)
           /\ writer' = [writer EXCEPT ![p.name] =
                [op |-> "save", value |-> p.entry.value, meta |-> p.meta]]
        \/ /\ ~r.out.ok
           /\ Ends(i, "rejected", SaveCatch(r.out.value, p.name), 1, store)
           /\ UNCHANGED writer

\* update, lines 113-118
UpdateValidation(args) ==
  IF ~validateNameProperty(args.name).ok THEN validateNameProperty(args.name)
  ELSE IF ~(Truthy(args.value) \/ Truthy(args.meta))
  THEN Throw(TypeError(
         <<"Invalid argument. Either value or meta property is required.">>))
  ELSE Return(Undefined)

\* update({name, value, meta}), lines 112-120, up to adapter.load
CallUpdate(args) ==
  /\ issued < MaxOps
  /\ IF ~UpdateValidation(args).ok
     THEN ThrowsAtCall("update", args, UpdateValidation(args).value)
     ELSE /\ Waits(PendingOp("update", args, "updateLoad", Undefined, Undefined))
          /\ UNCHANGED now

\* lines 127-131 with the value always taken from the arguments
UpdatedEntryValueFromArgs(entry, value, meta, date) ==
  [entry EXCEPT
     !.value = IF Truthy(value) THEN dataToUint8Array(value) ELSE Uint8Array(<<>>),
     !.meta = IF Truthy(meta) THEN meta ELSE entry.meta,
     !.modificationDate = date]

\* lines 127-131 setting both dates
UpdatedEntryBothDates(entry, value, meta, date) ==
  [entry EXCEPT
     !.value = IF Truthy(value) THEN dataToUint8Array(value) ELSE entry.value,
     !.meta = IF Truthy(meta) THEN meta ELSE entry.meta,
     !.creationDate = date,
     !.modificationDate = date]

\* lines 127-131: Object.assign(entry, {value, meta, modificationDate})
UpdatedEntry(entry, value, meta, date) ==
  [entry EXCEPT
     !.value = IF Truthy(value) THEN dataToUint8Array(value) ELSE entry.value,
     !.meta = IF Truthy(meta) THEN meta ELSE entry.meta,
     !.modificationDate = date]

\* line 122: adapter.load found nothing
MissingEntry(data) == data = Null

\* line 123 answering null instead of throwing
MissingEntryOutcomeNull(n) == Return(Null)

\* line 123: throw new KeyEntryDoesNotExistError(name)
MissingEntryOutcome(n) == Throw(KeyEntryDoesNotExistError(n))

\* adapter.load answers to update and the callback of lines 121-132 runs, up
\* to adapter.update
AdapterLoadForUpdate(i) ==
  /\ pending[i].pc = "updateLoad"
  /\ LET p == pending[i]
         data == adapterLoad(store, p.name)
     IN IF MissingEntry(data)
        THEN /\ Ends(i, IF MissingEntryOutcome(p.name).ok THEN "fulfilled"
                        ELSE "rejected",
                     MissingEntryOutcome(p.name).value, 1, store)
             /\ UNCHANGED writer
        ELSE /\ pending' = [pending EXCEPT ![i] =
                  [p EXCEPT !.pc = "updateWrite",
                            !.loaded = data,
                            !.entry = UpdatedEntry(deserializeKeyEntry(data),
                                                   p.value, p.meta, Date(now))]]
             /\ UNCHANGED <<store, writer, last, issued, now>>

\* adapter.update answers: the document is written over whatever is stored
AdapterUpdate(i) ==
  /\ pending[i].pc = "updateWrite"
  /\ LET p == pending[i]
     IN /\ Ends(i, "fulfilled", p.entry, 2,
                adapterUpdate(store, p.name, serializeKeyEntry(p.entry)))
        /\ writer' = [writer EXCEPT ![p.name] =
             [op |-> "update", value |-> p.entry.value, meta |-> p.meta]]

NextKeys ==
  \/ KeyTick /\ UNCHANGED <<cachedJwt, jwtPromise, renewals, calls, jwtVars>>
  \/ (\E n \in NameArgs : CallExists(n))
       /\ UNCHANGED <<cachedJwt, jwtPromise, renewals, calls, jwtVars>>
  \/ (\E n \in NameArgs : CallLoad(n))
       /\ UNCHANGED <<cachedJwt, jwtPromise, renewals, calls, jwtVars>>
  \/ (\E n \in NameArgs : CallRemove(n))
       /\ UNCHANGED <<cachedJwt, jwtPromise, renewals, calls, jwtVars>>
  \/ (\E args \in SaveArgs : CallSave(args))
       /\ UNCHANGED <<cachedJwt, jwtPromise, renewals, calls, jwtVars>>
  \/ (\E args \in UpdateArgs : CallUpdate(args))
       /\ UNCHANGED <<cachedJwt, jwtPromise, renewals, calls, jwtVars>>
  \/ (\E i \in 1..Len(pending) : AdapterExists(i))
       /\ UNCHANGED <<cachedJwt, jwtPromise, renewals, calls, jwtVars>>
  \/ (\E i \in 1..Len(pending) : AdapterLoad(i))
       /\ UNCHANGED <<cachedJwt, jwtPromise, renewals, calls, jwtVars>>
  \/ (\E i \in 1..Len(pending) : AdapterRemove(i))
       /\ UNCHANGED <<cachedJwt, jwtPromise, renewals, calls, jwtVars>>
  \/ (\E i \in 1..Len(pending) : AdapterStore(i))
       /\ UNCHANGED <<cachedJwt, jwtPromise, renewals, calls, jwtVars>>
  \/ (\E i \in 1..Len(pending) : AdapterLoadForUpdate(i))
       /\ UNCHANGED <<cachedJwt, jwtPromise, renewals, calls, jwtVars>>
  \/ (\E i \in 1..Len(pending) : AdapterUpdate(i))
       /\ UNCHANGED <<cachedJwt, jwtPromise, renewals, calls, jwtVars>>

(***************************************************************************)
(* The specifications: a provider, the Jwt operations, a key entry store.  *)
(***************************************************************************)
vars == <<jwt, jwtStr, strOf, parsed, expiry,
          now, cachedJwt, jwtPromise, renewals, calls,
          store, writer, pending, last, issued>>

Init == InitJwt /\ InitProvider /\ InitKeys

Next ==
  \/ Tick /\ UNCHANGED <<jwtVars, keyVars>>
  \/ (\E context \in Contexts : GetToken(context)) /\ UNCHANGED <<jwtVars, keyVars>>
  \/ RenewalResolves /\ UNCHANGED <<jwtVars, keyVars>>
  \/ RenewalRejects /\ UNCHANGED <<jwtVars, keyVars>>

Spec == Init /\ [][Next]_vars

(***************************************************************************)
(* The Jwt operations alone, on a provider that is never called.           *)
(***************************************************************************)
NextJwt ==
  \/ NewJwt /\ UNCHANGED <<providerVars, keyVars>>
  \/ FeedString /\ UNCHANGED <<providerVars, keyVars>>
  \/ CallToString /\ UNCHANGED <<providerVars, keyVars>>
  \/ CallFromString /\ UNCHANGED <<providerVars, keyVars>>
  \/ AdoptParsed /\ UNCHANGED <<providerVars, keyVars>>
  \/ CallIsExpired /\ UNCHANGED <<providerVars, keyVars>>

SpecJwt == Init /\ [][NextJwt]_vars

(***************************************************************************)
(* A KeyEntryStorage alone, beside a provider that is never called.        *)
(***************************************************************************)
\* a store that starts empty, and a provider without an initial token
InitKeysAlone == Init /\ cachedJwt = Undefined

SpecKeys == InitKeysAlone /\ [][NextKeys]_vars


(***************************************************************************)
(* Properties of CachingJwtProvider, checked under Spec.                   *)
(***************************************************************************)
Renewals == 1..Len(renewals)

Calls == 1..Len(calls)

\* the callback invoked for renewal r is no longer running
Settled(r) == renewals[r].callback # "outstanding"

\* the getToken calls made from the start of renewal r until it settled
WindowCalls(r) ==
  { k \in Calls : /\ k >= renewals[r].startedBy
                  /\ (Settled(r) => k <= renewals[r].callsAtSettle) }

\* call k was handed the promise of renewal r
HoldsPromise(k, r) ==
  calls[k].result.kind = "promise" /\ calls[k].result.value = r

\* the renewals call k started
StartedBy(k) == { r \in Renewals : renewals[r].startedBy = k }

\* Unix seconds of the date at plus the margin of 5 seconds
UnixSecondsWithMargin(at) == (at + 5 * 1000) \div 1000

FreshAt(cached, at) ==
  cached # Undefined /\ UnixSecondsWithMargin(at) <= cached.body.exp

StaleAt(cached, at) ==
  cached # Undefined /\ UnixSecondsWithMargin(at) > cached.body.exp

\* the value is the string form of a token; TokenOf is the token a Jwt or
\* such a string stands for
ValidTokenString(v) ==
  v.type = "string" /\ \E t \in RenewTokens : v.str = toString(t)

TokenOf(v) ==
  IF v.type = "string" THEN CHOOSE t \in RenewTokens : v.str = toString(t)
  ELSE v

\* C1: in every reachable state, whatever the interleaving of getToken
\* calls, clock advances and renewal completions (success or failure), at
\* most one invocation of the renewal callback is outstanding.
C1_AtMostOneOutstanding == Cardinality(Outstanding) <= 1

\* a second renewal is outstanding after the first one settled, and a call
\* made meanwhile joined it
C1_Witness ==
  /\ Len(renewals) = 2
  /\ Settled(1)
  /\ Outstanding = {2}
  /\ \E k \in Calls : calls[k].invoked = 0 /\ HoldsPromise(k, 2)

\* C2: when the cache is empty and N >= 1 getToken calls are issued before
\* the renewal settles, the callback is invoked exactly once (by the first
\* of them), every one of the N calls gets that renewal's promise, and if
\* the callback succeeds (a Jwt, or the string form of a token) the promise
\* resolves to the token the callback produced.
C2_EmptyCacheSingleFlight ==
  \A r \in Renewals :
    (/\ renewals[r].promise # "none"
     /\ calls[renewals[r].startedBy].cachedBefore = Undefined) =>
      /\ \A k \in WindowCalls(r) :
           /\ HoldsPromise(k, r)
           /\ (calls[k].invoked # 0) <=> (k = renewals[r].startedBy)
      /\ Cardinality(UNION { StartedBy(k) : k \in WindowCalls(r) }) = 1
      /\ (/\ renewals[r].callback = "resolved"
          /\ \/ renewals[r].produced.type = "Jwt"
             \/ ValidTokenString(renewals[r].produced)) =>
           /\ renewals[r].promise = "fulfilled"
           /\ renewals[r].result.type = "Jwt"
           /\ SameToken(renewals[r].result, TokenOf(renewals[r].produced))
           /\ renewals[r].produced.type = "Jwt" =>
                renewals[r].result = renewals[r].produced

\* three calls on an empty cache shared one renewal, whose callback resolved
\* with a token string
C2_Witness ==
  \E r \in Renewals :
    /\ calls[renewals[r].startedBy].cachedBefore = Undefined
    /\ Cardinality(WindowCalls(r)) >= 3
    /\ renewals[r].callback = "resolved"
    /\ renewals[r].produced.type = "string"
    /\ renewals[r].promise = "fulfilled"

\* C3: whenever getToken is called while cachedJwt exists and is not expired
\* at now + 5 seconds, the call returns exactly cachedJwt and the renewal
\* callback is not invoked; so does the first getToken on a provider
\* constructed with an initial token that is still fresh.
C3_FreshCacheHit ==
  \A k \in Calls :
    FreshAt(calls[k].cachedBefore, calls[k].at) =>
      /\ calls[k].result.kind = "resolved"
      /\ calls[k].result.value = calls[k].cachedBefore
      /\ calls[k].invoked = 0
      /\ StartedBy(k) = {}

\* the first call on a provider constructed with a token expiring at second
\* 5, made at 0.5 s (5.5 s with the margin): the cached token, no renewal
C3_Witness ==
  /\ Len(calls) >= 1
  /\ Len(renewals) = 0
  /\ calls[1].cachedBefore # Undefined
  /\ calls[1].cachedBefore.body.exp = 5
  /\ calls[1].at > 0
  /\ calls[1].result.kind = "resolved"

\* C4: a getToken call made when unixSeconds(now + 5s) > exp of the cached
\* token and no renewal is in flight starts exactly one new renewal and
\* does not return the cached token; a call made while
\* unixSeconds(now + 5s) <= exp starts none.
C4_StaleStartsOneRenewal ==
  \A k \in Calls :
    /\ (StaleAt(calls[k].cachedBefore, calls[k].at) /\ calls[k].markerBefore = 0) =>
         /\ calls[k].invoked # 0
         /\ StartedBy(k) = {calls[k].invoked}
         /\ calls[k].result.kind # "resolved"
    /\ FreshAt(calls[k].cachedBefore, calls[k].at) =>
         /\ calls[k].invoked = 0
         /\ StartedBy(k) = {}

\* the same cached token was returned while fresh and, once the clock had
\* passed its expiry minus the margin, a call started a renewal
C4_Witness ==
  \E k1, k2 \in Calls :
    /\ k1 < k2
    /\ calls[k1].cachedBefore # Undefined
    /\ calls[k1].cachedBefore = calls[k2].cachedBefore
    /\ calls[k1].result.kind = "resolved"
    /\ calls[k2].at > calls[k1].at
    /\ calls[k2].markerBefore = 0
    /\ calls[k2].invoked # 0

\* what a failed renewal failed with: the callback's rejection value, or the
\* error of Jwt.fromString when the callback resolved with a string
FailureValue(r) ==
  IF renewals[r].callback = "resolved" THEN WrongJwtFormat
  ELSE renewals[r].produced

C6_RejectedTokenStringIsSuccess ==
  \A r \in Renewals :
    (renewals[r].callback = "rejected" /\ ValidTokenString(renewals[r].produced)) =>
      /\ renewals[r].promise = "fulfilled"
      /\ renewals[r].result.type = "Jwt"
      /\ SameToken(renewals[r].result, TokenOf(renewals[r].produced))
      /\ renewals[r].cachedAfter = renewals[r].result
      /\ renewals[r].markerAfter = 0
      /\ \A k \in WindowCalls(r) : HoldsPromise(k, r)

\* the callback rejected with a token string while two calls were waiting
C6_Witness ==
  \E r \in Renewals :
    /\ renewals[r].callback = "rejected"
    /\ ValidTokenString(renewals[r].produced)
    /\ Cardinality(WindowCalls(r)) >= 2
    /\ cachedJwt = renewals[r].result

\* C7: jwtPromise is set exactly while a renewal is outstanding: in every
\* reachable state it is present iff a renewal has been started and has not
\* settled, it is cleared when a renewal settles (success or failure), and
\* every renewal is started with the marker clear and nothing outstanding.
C7_MarkerExactlyWhileOutstanding ==
  /\ (jwtPromise # 0) <=> (Outstanding # {})
  /\ (jwtPromise # 0) => (Outstanding = {jwtPromise})
  /\ \A r \in Renewals :
       /\ Settled(r) => renewals[r].markerAfter = 0
       /\ calls[renewals[r].startedBy].markerBefore = 0
       /\ calls[renewals[r].startedBy].outstandingBefore = {}

\* the marker is clear after one renewal succeeded and a later one failed
C7_Witness ==
  /\ Len(renewals) = 2
  /\ renewals[1].promise = "fulfilled"
  /\ renewals[2].promise = "rejected"
  /\ calls[renewals[2].startedBy].markerBefore = 0
  /\ jwtPromise = 0


(***************************************************************************)
(* Properties of KeyEntryStorage, checked under SpecKeys.                  *)
(***************************************************************************)
\* the operation that ended last is op, and it got as far as the adapter
LastReached(op) ==
  last # Undefined /\ last.op = op /\ last.adapterCalls > 0

\* C11: a save on a name that is already stored is rejected with
\* KeyEntryAlreadyExistsError and leaves the store, and so the entry stored
\* under that name, exactly as it was; so does a second save of the same
\* name.
C11_SaveOnStoredNameRejected ==
  (LastReached("save") /\ last.storeBefore[last.name] # Null) =>
    /\ last.result.kind = "rejected"
    /\ last.result.value = KeyEntryAlreadyExistsError(last.name)
    /\ last.storeAfter = last.storeBefore
    /\ store = last.storeBefore

\* a save of a name an earlier save had stored was rejected
C11_Witness ==
  /\ LastReached("save")
  /\ last.storeBefore[last.name] # Null
  /\ last.writerBefore[last.name].op = "save"
  /\ last.result.kind = "rejected"

\* load ended with the entry stored under its name, and a save without a
\* meta was the last operation to write that name
LoadedWhatSaveWrote ==
  /\ LastReached("load")
  /\ last.result.kind = "fulfilled"
  /\ last.result.value # Null
  /\ last.writerBefore[last.name] # Undefined
  /\ last.writerBefore[last.name].op = "save"
  /\ last.writerBefore[last.name].meta = Undefined

\* C12: after a successful save({name, value}) with no meta, load(name)
\* returns an entry whose value is the saved bytes, whose meta is undefined
\* and whose creationDate equals its modificationDate, whatever the name,
\* the value and the time of the save.
C12_LoadReturnsSavedEntry ==
  LoadedWhatSaveWrote =>
    /\ last.result.value.value = last.writerBefore[last.name].value
    /\ last.result.value.meta = Undefined
    /\ last.result.value.creationDate = last.result.value.modificationDate

\* the part of C12 about value and meta, which the two clock reads leave
\* alone
C12_ValueAndMetaComeBack ==
  LoadedWhatSaveWrote =>
    /\ last.result.value.value = last.writerBefore[last.name].value
    /\ last.result.value.meta = Undefined


\* an update ended by writing its document
Updated ==
  LastReached("update") /\ last.result.kind = "fulfilled"

\* the entry load(name) shows when it reads the document d
Shown(d) == deserializeKeyEntry(d)

\* what load shows for a meta object passed to save or update
ShownMeta(meta) == Revive("meta", Stringify(meta))

\* C13 as stated: a successful update replaces exactly the fields supplied;
\* after update({name, meta}) load shows the previous value, the new meta,
\* the same creationDate and a modificationDate later than before, and
\* after update({name, value}) the new value and the previous meta;
\* creationDate never changes across updates.
C13_UpdateReplacesSuppliedFields ==
  (Updated /\ last.storeBefore[last.name] # Null) =>
    LET before == Shown(last.storeBefore[last.name])
        after == Shown(last.storeAfter[last.name])
    IN /\ after.value = IF Truthy(last.value) THEN dataToUint8Array(last.value)
                        ELSE before.value
       /\ after.meta = IF Truthy(last.meta) THEN last.meta ELSE before.meta
       /\ after.creationDate = before.creationDate
       /\ after.modificationDate.ms > before.modificationDate.ms

\* C13, amended: a successful update replaces exactly the fields supplied
\* in the entry it loaded; after update({name, meta}) the entry it returns
\* and the entry load shows have the loaded value, the new meta (in load,
\* as the reviver revives it), the loaded creationDate and a
\* modificationDate not earlier than the loaded one, and after
\* update({name, value}) the new value and the loaded meta; an update never
\* writes a creationDate other than the one it loaded.
C13_UpdateReplacesFieldsOfLoadedEntry ==
  Updated =>
    LET loaded == Shown(last.loaded)
        after == Shown(last.storeAfter[last.name])
        returned == last.result.value
    IN /\ after.value = IF Truthy(last.value) THEN dataToUint8Array(last.value)
                        ELSE loaded.value
       /\ returned.value = after.value
       /\ after.meta = IF Truthy(last.meta) THEN ShownMeta(last.meta)
                       ELSE loaded.meta
       /\ returned.meta = IF Truthy(last.meta) THEN last.meta ELSE loaded.meta
       /\ after.creationDate = loaded.creationDate
       /\ returned.creationDate = loaded.creationDate
       /\ after.modificationDate.ms >= loaded.modificationDate.ms
       /\ returned.modificationDate = after.modificationDate
       /\ after.name = loaded.name

\* update({name, meta}) wrote an entry saved earlier, at a later time
C13_Witness ==
  /\ Updated
  /\ ~Truthy(last.value) /\ Truthy(last.meta)
  /\ Shown(last.storeAfter[last.name]).modificationDate.ms
       > Shown(last.loaded).creationDate.ms
  /\ Shown(last.storeAfter[last.name]).value = Uint8Array(<<2>>)


\* update was called with a name under which nothing was stored when it
\* ended: when it failed validation, or when its adapter.load answered
UpdateOfAbsentName ==
  /\ last # Undefined
  /\ last.op = "update"
  /\ Truthy(last.name)
  /\ last.loaded = Undefined
  /\ last.storeBefore[last.name] = Null

\* C14 as stated: an update whose name is not present, a call that supplies
\* only the name included, is rejected with KeyEntryDoesNotExistError and
\* leaves the store unchanged.
C14_UpdateOfAbsentNameNotFound ==
  UpdateOfAbsentName =>
    /\ last.result.kind = "rejected"
    /\ last.result.value = KeyEntryDoesNotExistError(last.name)
    /\ last.storeAfter = last.storeBefore

\* C14, amended: an update that supplies a value or a meta and whose name
\* is not present is rejected with KeyEntryDoesNotExistError and leaves the
\* store unchanged; a call that supplies only the name fails validation
\* with a TypeError before the adapter is called, and leaves the store
\* unchanged too.
C14_UpdateOfAbsentNameNotFoundOrInvalid ==
  UpdateOfAbsentName =>
    /\ last.storeAfter = last.storeBefore
    /\ store = last.storeBefore
    /\ IF Truthy(last.value) \/ Truthy(last.meta)
       THEN /\ last.adapterCalls = 1
            /\ last.result.kind = "rejected"
            /\ last.result.value = KeyEntryDoesNotExistError(last.name)
       ELSE /\ last.adapterCalls = 0
            /\ last.result.kind # "fulfilled"
            /\ last.result.value.type = "TypeError"

\* an update with a meta found nothing under its name
C14_Witness ==
  /\ UpdateOfAbsentName
  /\ Truthy(last.meta)
  /\ last.result.kind = "rejected"


\* a name or value that is missing or empty: undefined, null, the empty
\* string, or a byte sequence of length zero
MissingOrEmpty(v) ==
  \/ ~Truthy(v)
  \/ (v.type = "Uint8Array" /\ v.bytes = <<>>)

\* C15: save fails with a TypeError whenever the name or the value is
\* missing or empty, a zero-length byte sequence included, so every stored
\* entry has a non-empty name and a non-empty value.
C15_SaveRequiresNameAndValue ==
  /\ (last # Undefined /\ last.op = "save"
        /\ (MissingOrEmpty(last.name) \/ MissingOrEmpty(last.value))) =>
       /\ last.adapterCalls = 0
       /\ last.result.value.type = "TypeError"
  /\ \A n \in Names :
       store[n] # Null =>
         /\ ~MissingOrEmpty(Shown(store[n]).name)
         /\ ~MissingOrEmpty(Shown(store[n]).value)

\* the part of C15 that holds: a save whose name or value is undefined,
\* null or the empty string fails with a TypeError before the adapter is
\* called
C15_SaveRequiresTruthyNameAndValue ==
  (last # Undefined /\ last.op = "save"
     /\ (~Truthy(last.name) \/ ~Truthy(last.value))) =>
    /\ last.adapterCalls = 0
    /\ last.result.value.type = "TypeError"

\* a save of no bytes was stored
C15_EmptyValueStored ==
  /\ LastReached("save")
  /\ last.result.kind = "fulfilled"
  /\ last.value = Uint8Array(<<>>)
  /\ Shown(store[last.name]).value = Uint8Array(<<>>)


\* the operation that ended last failed validation: a falsy name in any
\* operation, a falsy value in save, neither value nor meta in update
ValidationFailed ==
  /\ last # Undefined
  /\ \/ ~Truthy(last.name)
     \/ (last.op = "save" /\ ~Truthy(last.value))
     \/ (last.op = "update" /\ ~Truthy(last.value) /\ ~Truthy(last.meta))

\* C16: every validation failure (a falsy name in exists, load, remove,
\* save or update, a missing value in save, an update with neither value
\* nor meta) reaches the caller as a rejected asynchronous result that
\* carries a TypeError, and the adapter is not called.
C16_ValidationFailuresReject ==
  ValidationFailed =>
    /\ last.result.kind = "rejected"
    /\ last.result.value.type = "TypeError"
    /\ last.adapterCalls = 0
    /\ last.storeAfter = last.storeBefore

\* the part of C16 that holds: a validation failure carries a TypeError and
\* the adapter is not called
C16_ValidationFailuresSkipAdapter ==
  ValidationFailed =>
    /\ last.result.value.type = "TypeError"
    /\ last.adapterCalls = 0
    /\ last.storeAfter = last.storeBefore

\* exists('') threw in the caller's own turn
C16_ThrownSynchronously ==
  /\ ValidationFailed
  /\ last.op = "exists"
  /\ last.result.kind = "thrown"


\* C17: update is a load followed by a separate adapter update, with
\* nothing arbitrating between overlapping updates: the later write
\* replaces the whole record with the document computed from what that
\* update had loaded, so of a value-only update and a meta-only update that
\* overlap, the entry can be left with just one of the two changes.
C17_LaterWriteReplacesWholeRecord ==
  Updated =>
    LET loaded == Shown(last.loaded)
        after == Shown(last.storeAfter[last.name])
    IN /\ last.adapterCalls = 2
       /\ last.storeAfter =
            [last.storeBefore EXCEPT
               ![last.name] = serializeKeyEntry(last.result.value)]
       /\ ~Truthy(last.meta) => after.meta = loaded.meta
       /\ ~Truthy(last.value) => after.value = loaded.value

\* a value-only update wrote over the meta an overlapping meta-only update
\* had written after the first had loaded: the meta change is lost
C17_Witness ==
  /\ Updated
  /\ Truthy(last.value) /\ ~Truthy(last.meta)
  /\ last.storeBefore[last.name] # Null
  /\ last.writerBefore[last.name].op = "update"
  /\ Truthy(last.writerBefore[last.name].meta)
  /\ Shown(last.storeBefore[last.name]).meta = ShownMeta(MetaValue)
  /\ Shown(last.storeAfter[last.name]).meta = Undefined
  /\ Shown(last.storeAfter[last.name]).value = dataToUint8Array(last.value)


(***************************************************************************)
(* Liveness of CachingJwtProvider.  The provider imposes no timeout: a     *)
(* renewal completes when, and only when, its callback settles.  SpecLive  *)
(* is Spec under the hypothesis that every callback that was started and   *)
(* has not settled does settle.                                            *)
(***************************************************************************)
RenewalSettles ==
  (RenewalResolves \/ RenewalRejects) /\ UNCHANGED <<jwtVars, keyVars>>

SpecLive == Init /\ [][Next]_vars /\ WF_vars(RenewalSettles)

\* getToken call k has answered with a promise
AnsweredWithPromise(k) ==
  Len(calls) >= k /\ calls[k].result.kind = "promise"

\* the promise getToken call k answered with has settled
PromiseSettled(k) ==
  AnsweredWithPromise(k) /\ Settled(calls[k].result.value)

\* while the callback of renewal r has not settled: the promise of r is
\* pending, and with it every getToken call that holds it; the marker is r;
\* and r is the renewal started last
HangsWhileOutstanding ==
  \A r \in Outstanding :
    /\ renewals[r].promise = "pending"
    /\ jwtPromise = r
    /\ r = Len(renewals)
    /\ \A k \in WindowCalls(r) :
         /\ HoldsPromise(k, r)
         /\ calls[k].invoked = IF k = renewals[r].startedBy THEN r ELSE 0

\* C18: when every started renewal callback eventually settles, every
\* getToken call eventually settles and the in-flight marker is eventually
\* cleared; as long as a callback has not settled, every getToken call that
\* joined its renewal is pending and, the cache being stale, getToken joins
\* that renewal and starts no other.
C18_SettlesWhenCallbackSettles ==
  /\ (jwtPromise # 0) ~> (jwtPromise = 0)
  /\ \A k \in 1..MaxCalls : AnsweredWithPromise(k) ~> PromiseSettled(k)
  /\ []HangsWhileOutstanding

\* a getToken call joined a renewal that has since settled and cleared the
\* marker
C18_Witness ==
  \E k \in Calls :
    /\ calls[k].invoked = 0
    /\ calls[k].result.kind = "promise"
    /\ Settled(calls[k].result.value)
    /\ jwtPromise = 0


\* getToken call k joined a renewal that was in flight
Joined(k) ==
  calls[k].invoked = 0 /\ calls[k].result.kind = "promise"

\* C19: the renewal callback is invoked only with the context of the
\* getToken call that started the renewal; a getToken call that arrives
\* while a renewal is in flight gets the promise of that renewal, whatever
\* its own context, and the callback is never invoked for it.
C19_CallbackGetsStartersContext ==
  /\ \A r \in Renewals :
       /\ renewals[r].startedBy \in Calls
       /\ calls[renewals[r].startedBy].invoked = r
       /\ renewals[r].context = calls[renewals[r].startedBy].context
  /\ \A k \in Calls :
       /\ calls[k].invoked = 0 => StartedBy(k) = {}
       /\ Joined(k) =>
            /\ calls[k].result.value = calls[k].markerBefore
            /\ calls[k].result.value \in calls[k].outstandingBefore
            /\ renewals[calls[k].result.value].startedBy < k

\* a call with another context joined a renewal, which has since completed
\* with a token
C19_Witness ==
  \E k \in Calls :
    /\ Joined(k)
    /\ calls[k].context # renewals[calls[k].result.value].context
    /\ renewals[calls[k].result.value].promise = "fulfilled"


\* the callback of renewal r produced a token: a Jwt it resolved with, or
\* the string form of a token, which it resolved or rejected with
ProducedToken(r) ==
  \/ (r.callback = "resolved" /\ r.produced \in RenewTokens)
  \/ ValidTokenString(r.produced)

\* renewal i completes in this step
Completes(i) == i \in Outstanding /\ i \notin Outstanding'

\* C20: cachedJwt changes only when a renewal completes with a token (what
\* the callback resolved with, or a valid token string it rejected with),
\* and then the token is stored without any test of its freshness; getToken
\* calls that hit the cache or join a renewal, a renewal that fails, and a
\* renewal whose string result does not parse leave cachedJwt as it was.
C20_CacheChangesOnlyOnToken ==
  [][ /\ cachedJwt' # cachedJwt =>
           \E i \in Outstanding : Completes(i) /\ ProducedToken(renewals'[i])
      /\ \A i \in Outstanding : Completes(i) =>
           IF ProducedToken(renewals'[i])
           THEN /\ cachedJwt' = TokenOf(renewals'[i].produced)
                /\ renewals'[i].promise = "fulfilled"
           ELSE /\ cachedJwt' = cachedJwt
                /\ renewals'[i].promise = "rejected"
      /\ Len(calls') > Len(calls) => cachedJwt' = cachedJwt
    ]_vars

\* a renewal replaced the cached token by one that had expired already
C20_Witness ==
  \E r \in Renewals :
    /\ Settled(r)
    /\ renewals[r].promise = "fulfilled"
    /\ renewals[r].cachedAfter # calls[renewals[r].startedBy].cachedBefore
    /\ renewals[r].cachedAfter.body.exp = 0
    /\ cachedJwt = renewals[r].cachedAfter


=============================================================================
